---- MODULE Spec2Model ----
(***************************************************************************)
(* teepod control plane: the RPC handlers of teepod/src/main_service.rs    *)
(* (create_vm, start_vm, stop_vm, remove_vm, upgrade_app, resize_vm) over  *)
(* the per-instance work directories, with the port-mapping policy of      *)
(* teepod/src/config.rs.  The App object the handlers call into            *)
(* (crate::app: load_vm, start_vm, stop_vm, remove_vm, get_vm and the CID  *)
(* pool) is modelled from the design document.                             *)
(***************************************************************************)
EXTENDS Integers, Sequences, FiniteSets, TLC

(* ---------------------------- bounds ----------------------------------- *)

\* number of distinct values the instance-id generator can draw
MaxIds == 3

(* ------------------------ host configuration --------------------------- *)

\* values a u16 (PortMapping::from, PortMapping::to) cannot hold start here
U16Limit == 65536

\* CvmConfig::cid_start and CvmConfig::cid_pool_size: the pool [100, 102)
cid_start == 100
cid_pool_size == 2

\* PortMappingConfig::range: one entry, tcp 8000..9000
RangeFrom == 8000
RangeTo == 9000
PmRange == << [protocol |-> "Tcp", from |-> RangeFrom, to |-> RangeTo] >>

\* PortMappingConfig::address
PmAddress == "127.0.0.1"

(* ----------------------------- values ---------------------------------- *)

Ids == 1 .. MaxIds

\* content of a file that does not exist
NoFile == "NoFile"

\* images under image_path: one complete, one without metadata.json, one whose
\* metadata carries no rootfs_hash
Images == {"img", "img-nometa", "img-nohash"}

\* compose payloads: the empty string, text that is not JSON, an AppCompose
\* document without docker_compose_file, and two complete documents
ComposeFiles == {"", "garbage", "norunner", "appA", "appB"}

(* --------------------------- pure functions ---------------------------- *)

\* char::is_alphanumeric over the characters the model draws names from
is_alphanumeric(c) == c \in {"a", "1"}

\* validate_label: TRUE when Ok(()), FALSE when it bails with "Invalid name"
validate_label(label) ==
    ~ \E i \in 1 .. Len(label) :
        ~ is_alphanumeric(label[i]) /\ label[i] # "-" /\ label[i] # "_"

\* a conversion to u16 that never fails (an `as u16` cast)
try_into_u16_any(v) == TRUE

\* u32 -> u16 try_into: Ok exactly when the value fits 16 bits
try_into_u16_ok(v) == v >= 0 /\ v < U16Limit

\* Protocol::from_str
Protocol_from_str(s) ==
    IF s = "tcp" THEN "Tcp" ELSE IF s = "udp" THEN "Udp" ELSE "Err"

\* Protocol::as_str
Protocol_as_str(p) == IF p = "Tcp" THEN "tcp" ELSE "udp"

\* PortRange::contains with the upper bound left out of the range
PortRange_contains_exclusive(r, protocol, port) ==
    Protocol_as_str(r.protocol) = protocol /\ port >= r.from /\ port < r.to

\* PortRange::contains
PortRange_contains(r, protocol, port) ==
    Protocol_as_str(r.protocol) = protocol /\ port >= r.from /\ port <= r.to

\* PortMappingConfig::is_allowed
is_allowed(enabled, range, protocol, port) ==
    IF ~ enabled THEN FALSE
    ELSE \E i \in 1 .. Len(range) : PortRange_contains(range[i], protocol, port)

\* A string whose characters the model does not spell out is a triple
\* <<kind, content, length>>: a literal text, or the hex digest of a text.
Str(text, n) == <<"lit", text, n>>
EmptyStr == Str("", 0)
StrLen(s) == s[3]

\* hex_sha256: the digest of a text, 64 hex characters long; distinct texts
\* have distinct digests
hex_sha256(data) == <<"sha256", data, 64>>

\* truncate40 (inner function of app_id_of): the first 40 characters
truncate40(s) == IF StrLen(s) > 40 THEN <<s[1], s[2], 40>> ELSE s

\* app_id_of
app_id_of(compose_file) == truncate40(hex_sha256(compose_file))

(* ------------------------------ state ---------------------------------- *)

VARIABLES
    pm_enabled, \* PortMappingConfig::enabled, fixed when the process starts
    dirs,       \* run_path/<id>: the work directory of each instance id
    vms,        \* App: the instances loaded in memory, with CID and status
    last,       \* the RPC that returned last and what it returned
    returned,   \* history: the instance ids successful create_vm calls have
                \* returned, recorded by the specification that asks for it
    inflight    \* the create_vm calls that have begun and not returned: how
                \* far each one is, its instance id and the CID it was given

vars == <<pm_enabled, dirs, vms, last, returned, inflight>>

\* bound on the number of create_vm calls in flight at once
MaxCalls == 2

Calls == 1 .. MaxCalls

\* no create_vm call in flight
Idle == [pc |-> "idle", uuid |-> 0, cid |-> 0]

\* manifest.json has not been written
NoManifest ==
    [present |-> FALSE, id |-> 0, name |-> <<>>, app_id |-> EmptyStr, image |-> "",
     vcpu |-> 0, memory |-> 0, disk_size |-> 0, port_map |-> <<>>,
     created_at_ms |-> 0]

\* the work directory does not exist
NoDir ==
    [exists |-> FALSE, compose |-> NoFile, env |-> NoFile, certs |-> FALSE,
     config |-> FALSE, info |-> EmptyStr, manifest |-> NoManifest, started |-> FALSE]

\* the instance is not loaded
NoVm == [loaded |-> FALSE, cid |-> 0, status |-> "absent"]

Init ==
    /\ pm_enabled \in BOOLEAN
    /\ dirs = [i \in Ids |-> NoDir]
    /\ vms = [i \in Ids |-> NoVm]
    /\ last = [op |-> "none", id |-> 0, err |-> "ok", backend |-> FALSE, warns |-> {},
               new_id |-> EmptyStr]
    /\ returned = {}
    /\ inflight = [r \in Calls |-> Idle]

\* a host whose configuration enables port mapping
InitEnabled == Init /\ pm_enabled = TRUE

\* what an RPC leaves in `last`: its name, the instance id it generated (0 when
\* it generated none: only create_vm does), the error it returned ("ok" for Ok)
\* whether it called into the VM runtime backend, the warnings it logged, and
\* the application id of its response (upgrade_app's Id, empty otherwise)
Returned(op, id, err, backend) ==
    [op |-> op, id |-> id, err |-> err, backend |-> backend, warns |-> {},
     new_id |-> EmptyStr]

\* the errors a request is refused with for what it holds
ValidationErrs ==
    {"InvalidName", "PortMappingDisabled", "InvalidHostPort", "InvalidVmPort",
     "PortNotAllowed", "InvalidProtocol", "InvalidCompose", "EmptyDockerCompose"}

(* ------------------- create_vm: request validation --------------------- *)

\* the closure create_vm maps over request.ports: the error it returns for
\* one requested mapping, "ok" when it yields a PortMapping
port_err(p) ==
    IF ~ try_into_u16_ok(p.host_port) THEN "InvalidHostPort"
    ELSE IF ~ try_into_u16_ok(p.vm_port) THEN "InvalidVmPort"
    ELSE IF ~ is_allowed(pm_enabled, PmRange, p.protocol, p.host_port) THEN "PortNotAllowed"
    ELSE IF Protocol_from_str(p.protocol) = "Err" THEN "InvalidProtocol"
    ELSE "ok"

\* the PortMapping the closure builds from an accepted request entry
to_port_mapping(p) ==
    [address |-> PmAddress, protocol |-> Protocol_from_str(p.protocol),
     from |-> p.host_port, to |-> p.vm_port]

\* collect::<Result<Vec<_>>>: the error of the first entry that fails, else "ok"
port_map_err(ports) ==
    IF \A i \in 1 .. Len(ports) : port_err(ports[i]) = "ok" THEN "ok"
    ELSE LET first == CHOOSE i \in 1 .. Len(ports) :
                          /\ port_err(ports[i]) # "ok"
                          /\ \A j \in 1 .. i - 1 : port_err(ports[j]) = "ok"
         IN port_err(ports[first])

\* the collected port map of a request whose entries were all accepted
port_map_of(ports) == [i \in 1 .. Len(ports) |-> to_port_mapping(ports[i])]

\* the checks of create_vm with the port-mapping switch tested as
\* !(ports.is_empty() && enabled)
create_validation_err_and(request) ==
    IF ~ validate_label(request.name) THEN "InvalidName"
    ELSE IF ~ (request.ports = <<>> /\ pm_enabled) THEN "PortMappingDisabled"
    ELSE port_map_err(request.ports)

\* the checks create_vm makes before it generates the instance id
create_validation_err(request) ==
    IF ~ validate_label(request.name) THEN "InvalidName"
    ELSE IF ~ (request.ports = <<>> \/ pm_enabled) THEN "PortMappingDisabled"
    ELSE port_map_err(request.ports)

\* an empty caller-supplied application id taken for none
resolve_app_id_unless_empty(request) ==
    IF request.app_id.some /\ request.app_id.v # EmptyStr
    THEN request.app_id.v ELSE app_id_of(request.compose_file)

\* match &request.app_id { Some(id) => id, None => app_id_of(compose_file) }
resolve_app_id(request) ==
    IF request.app_id.some THEN request.app_id.v ELSE app_id_of(request.compose_file)

(* ---------------------- RpcHandler::prepare_work_dir ------------------- *)

\* ImageInfo::load(image_path/<image>/metadata.json)
image_info_loads(image) == image # "img-nometa"

\* image_info.rootfs_hash is Some
has_rootfs_hash(image) == image = "img"

\* prepare_work_dir without its test for an existing directory
work_dir_exists_unchecked(dir) == FALSE

\* work_dir.exists()
work_dir_exists(dir) == dir.exists

\* the bail on an existing work directory removing what it found
bail_already_exists_clearing(old) == [err |-> "AlreadyExists", dir |-> NoDir]

\* the bail on an existing work directory: nothing is touched
bail_already_exists(old) == [err |-> "AlreadyExists", dir |-> old]

\* prepare_work_dir(id, req): the error it returns and the directory it leaves.
\* `faults` names the file-system calls that fail.
prepare_work_dir(old, req, faults) ==
    LET d1 == [NoDir EXCEPT !.exists = TRUE]
        d2 == [d1 EXCEPT !.compose = req.compose_file]
        d3 == IF req.encrypted_env # "" THEN [d2 EXCEPT !.env = req.encrypted_env] ELSE d2
        d4 == [d3 EXCEPT !.certs = TRUE]
        d5 == [d4 EXCEPT !.config = TRUE]
        app_id == IF req.app_id.some THEN req.app_id.v ELSE EmptyStr
        d6 == IF app_id # EmptyStr THEN [d5 EXCEPT !.info = app_id] ELSE d5
    IN  IF work_dir_exists(old) THEN bail_already_exists(old)
        ELSE IF "create_dir" \in faults THEN [err |-> "CreateSharedDir", dir |-> old]
        ELSE IF "write_compose" \in faults THEN [err |-> "WriteCompose", dir |-> d1]
        ELSE IF req.encrypted_env # "" /\ "write_env" \in faults THEN [err |-> "WriteEnv", dir |-> d2]
        ELSE IF "copy_certs" \in faults THEN [err |-> "CopyCerts", dir |-> d3]
        ELSE IF ~ image_info_loads(req.image) THEN [err |-> "ImageInfo", dir |-> d4]
        ELSE IF ~ has_rootfs_hash(req.image) THEN [err |-> "RootfsHash", dir |-> d4]
        ELSE IF "write_config" \in faults THEN [err |-> "WriteConfig", dir |-> d4]
        ELSE IF app_id # EmptyStr /\ "write_info" \in faults THEN [err |-> "WriteInfo", dir |-> d5]
        ELSE [err |-> "ok", dir |-> d6]

(* ------------------------- App (crate::app) ---------------------------- *)

\* the CIDs the loaded instances hold
held_cids(v) == { v[i].cid : i \in { j \in Ids : v[j].loaded } }

\* the CID pool's range [cid_start, cid_start + cid_pool_size)
cid_range == cid_start .. (cid_start + cid_pool_size - 1)

\* allocate_cid handing out the start of the range whatever is held
allocate_cid_first(v) == cid_start

\* allocate_cid scanning from the top of the range
allocate_cid_highest(v) ==
    LET free == cid_range \ held_cids(v)
    IN  IF free = {} THEN 0
        ELSE CHOOSE c \in free : \A d \in free : c >= d

\* allocate_cid: the lowest value of the range no loaded instance holds,
\* 0 when every value is held (Exhausted)
allocate_cid(v) ==
    LET free == cid_range \ held_cids(v)
    IN  IF free = {} THEN 0
        ELSE CHOOSE c \in free : \A d \in free : c <= d

\* App::load_vm(work_dir): registers the instance of the work directory with a
\* CID (the one it holds already, else a fresh one) and has the backend launch
\* it when its started flag is set.  A failure leaves the registry as it was.
load_vm(v, id, dir, faults) ==
    LET cid == IF v[id].loaded THEN v[id].cid ELSE allocate_cid(v)
    IN  IF ~ dir.manifest.present THEN [err |-> "ReadManifest", vms |-> v, backend |-> FALSE]
        ELSE IF cid = 0 THEN [err |-> "CidExhausted", vms |-> v, backend |-> FALSE]
        ELSE IF "launch" \in faults THEN [err |-> "Launch", vms |-> v, backend |-> TRUE]
        ELSE [err |-> "ok", backend |-> TRUE,
              vms |-> [v EXCEPT ![id] =
                          [loaded |-> TRUE, cid |-> cid,
                           status |-> IF dir.started THEN "running" ELSE "stopped"]]]

(* ------------------------------ create_vm ------------------------------ *)

\* Manifest::builder()...build(); now is SystemTime::now() in milliseconds
build_manifest(id, request, now) ==
    [present |-> TRUE, id |-> id, name |-> request.name,
     app_id |-> resolve_app_id(request), image |-> request.image,
     vcpu |-> request.vcpu, memory |-> request.memory, disk_size |-> request.disk_size,
     port_map |-> port_map_of(request.ports), created_at_ms |-> now]

\* vm_work_dir.set_started(true), whose failure is only logged
set_started_or_warn(dir, faults) ==
    IF "set_started" \in faults THEN dir ELSE [dir EXCEPT !.started = TRUE]

\* a rollback that leaves the work directory in place
rollback_dir_kept(dir, faults) == dir

\* fs::remove_dir_all(&work_dir) of the rollback, whose failure is only logged
rollback_dir(dir, faults) == IF "remove_dir" \in faults THEN dir ELSE NoDir

\* the warn! lines of a create_vm call that got as far as the launch
create_warns(faults, load_err) ==
    (IF "set_started" \in faults THEN {"set_started"} ELSE {})
    \cup (IF load_err # "ok" /\ "remove_dir" \in faults THEN {"remove_dir"} ELSE {})

\* create_vm(request).  uuid is the value Uuid::new_v4 draws, now the
\* reading of the system clock, faults the
\* file-system and backend calls that fail.
create_vm(request, uuid, now, faults) ==
    LET verr == create_validation_err(request)
        prep == prepare_work_dir(dirs[uuid], request, faults)
        with_manifest == [prep.dir EXCEPT !.manifest = build_manifest(uuid, request, now)]
        with_started == set_started_or_warn(with_manifest, faults)
        ld == load_vm(vms, uuid, with_started, faults)
    IN  /\ UNCHANGED pm_enabled
        /\ IF verr # "ok" THEN
               /\ last' = Returned("create_vm", 0, verr, FALSE)
               /\ UNCHANGED <<dirs, vms>>
           ELSE IF prep.err # "ok" THEN
               /\ dirs' = [dirs EXCEPT ![uuid] = prep.dir]
               /\ last' = Returned("create_vm", uuid, prep.err, FALSE)
               /\ UNCHANGED vms
           ELSE IF "put_manifest" \in faults THEN
               /\ dirs' = [dirs EXCEPT ![uuid] = prep.dir]
               /\ last' = Returned("create_vm", uuid, "WriteManifest", FALSE)
               /\ UNCHANGED vms
           ELSE IF ld.err # "ok" THEN
               /\ dirs' = [dirs EXCEPT ![uuid] = rollback_dir(with_started, faults)]
               /\ vms' = ld.vms
               /\ last' = [Returned("create_vm", uuid, ld.err, ld.backend)
                               EXCEPT !.warns = create_warns(faults, ld.err)]
           ELSE
               /\ dirs' = [dirs EXCEPT ![uuid] = with_started]
               /\ vms' = ld.vms
               /\ last' = [Returned("create_vm", uuid, "ok", ld.backend)
                               EXCEPT !.warns = create_warns(faults, ld.err)]

(* ------------------- start_vm, stop_vm, remove_vm ---------------------- *)

\* start_vm(id): App::start_vm looks the instance up, sets its started flag and
\* has the backend start it
start_vm(id, faults) ==
    /\ UNCHANGED pm_enabled
    /\ IF ~ vms[id].loaded THEN
           /\ last' = Returned("start_vm", 0, "NotFound", FALSE)
           /\ UNCHANGED <<dirs, vms>>
       ELSE IF "backend" \in faults THEN
           /\ last' = Returned("start_vm", 0, "Backend", TRUE)
           /\ UNCHANGED <<dirs, vms>>
       ELSE
           /\ dirs' = [dirs EXCEPT ![id].started = TRUE]
           /\ vms' = [vms EXCEPT ![id].status = "running"]
           /\ last' = Returned("start_vm", 0, "ok", TRUE)

\* stop_vm(id): App::stop_vm looks the instance up, clears its started flag and
\* has the backend stop it
stop_vm(id, faults) ==
    /\ UNCHANGED pm_enabled
    /\ IF ~ vms[id].loaded THEN
           /\ last' = Returned("stop_vm", 0, "NotFound", FALSE)
           /\ UNCHANGED <<dirs, vms>>
       ELSE IF "backend" \in faults THEN
           /\ last' = Returned("stop_vm", 0, "Backend", TRUE)
           /\ UNCHANGED <<dirs, vms>>
       ELSE
           /\ dirs' = [dirs EXCEPT ![id].started = FALSE]
           /\ vms' = [vms EXCEPT ![id].status = "stopped"]
           /\ last' = Returned("stop_vm", 0, "ok", TRUE)

\* remove_vm answering Ok for an instance that is not registered, after
\* deleting whatever work directory carries its id
remove_vm_unknown_ok(id, faults) ==
    /\ UNCHANGED pm_enabled
    /\ IF ~ vms[id].loaded THEN
           /\ dirs' = [dirs EXCEPT ![id] = NoDir]
           /\ last' = Returned("remove_vm", 0, "ok", FALSE)
           /\ UNCHANGED vms
       ELSE IF "backend" \in faults THEN
           /\ last' = Returned("remove_vm", 0, "Backend", TRUE)
           /\ UNCHANGED <<dirs, vms>>
       ELSE
           /\ vms' = [vms EXCEPT ![id] = NoVm]
           /\ dirs' = [dirs EXCEPT ![id] = IF "remove_dir" \in faults THEN @ ELSE NoDir]
           /\ last' = Returned("remove_vm", 0, IF "remove_dir" \in faults THEN "RemoveDir" ELSE "ok", TRUE)

\* remove_vm deleting the work directory first and releasing the CID only
\* once that has succeeded
remove_vm_dir_first(id, faults) ==
    /\ UNCHANGED pm_enabled
    /\ IF ~ vms[id].loaded THEN
           /\ last' = Returned("remove_vm", 0, "NotFound", FALSE)
           /\ UNCHANGED <<dirs, vms>>
       ELSE IF "backend" \in faults THEN
           /\ last' = Returned("remove_vm", 0, "Backend", TRUE)
           /\ UNCHANGED <<dirs, vms>>
       ELSE IF "remove_dir" \in faults THEN
           /\ last' = Returned("remove_vm", 0, "RemoveDir", TRUE)
           /\ UNCHANGED <<dirs, vms>>
       ELSE
           /\ vms' = [vms EXCEPT ![id] = NoVm]
           /\ dirs' = [dirs EXCEPT ![id] = NoDir]
           /\ last' = Returned("remove_vm", 0, "ok", TRUE)

\* remove_vm(id): App::remove_vm looks the instance up, has the backend stop
\* it, releases its CID and then deletes its work directory
remove_vm(id, faults) ==
    /\ UNCHANGED pm_enabled
    /\ IF ~ vms[id].loaded THEN
           /\ last' = Returned("remove_vm", 0, "NotFound", FALSE)
           /\ UNCHANGED <<dirs, vms>>
       ELSE IF "backend" \in faults THEN
           /\ last' = Returned("remove_vm", 0, "Backend", TRUE)
           /\ UNCHANGED <<dirs, vms>>
       ELSE
           /\ vms' = [vms EXCEPT ![id] = NoVm]
           /\ dirs' = [dirs EXCEPT ![id] = IF "remove_dir" \in faults THEN @ ELSE NoDir]
           /\ last' = Returned("remove_vm", 0, IF "remove_dir" \in faults THEN "RemoveDir" ELSE "ok", TRUE)

(* -------------------------------- status ------------------------------- *)

\* App::list_vms: the instances of the in-memory registry
list_vms(v) == { i \in Ids : v[i].loaded }

\* status(): the ids of StatusResponse.vms
status(v) == list_vms(v)

(* ------------------------------ upgrade_app ---------------------------- *)

\* serde_json::from_str::<AppCompose>: the text is JSON with every required field
parses_as_app_compose(c) == c \in {"norunner", "appA", "appB"}

\* app_compose.docker_compose_file.is_some()
has_docker_compose_file(c) == c \in {"appA", "appB"}

\* the compose branch of upgrade_app with the file written before the
\* payload is parsed
upgrade_compose_write_first(dir, compose_file, faults) ==
    LET written == IF dir.exists /\ dir.compose # NoFile
                   THEN [dir EXCEPT !.compose = compose_file] ELSE dir
    IN  IF compose_file = "" THEN [err |-> "ok", dir |-> dir, new_id |-> EmptyStr]
        ELSE IF ~ parses_as_app_compose(compose_file)
             THEN [err |-> "InvalidCompose", dir |-> written, new_id |-> EmptyStr]
        ELSE IF ~ has_docker_compose_file(compose_file)
             THEN [err |-> "EmptyDockerCompose", dir |-> written, new_id |-> EmptyStr]
        ELSE IF ~ (dir.exists /\ dir.compose # NoFile)
             THEN [err |-> "NotFound", dir |-> dir, new_id |-> EmptyStr]
        ELSE [err |-> "ok", dir |-> written, new_id |-> app_id_of(compose_file)]

\* the compose branch of upgrade_app answering with the application id the
\* instance was created with
upgrade_compose_keeps_id(dir, compose_file, faults) ==
    IF compose_file = "" THEN [err |-> "ok", dir |-> dir, new_id |-> EmptyStr]
    ELSE IF ~ parses_as_app_compose(compose_file)
         THEN [err |-> "InvalidCompose", dir |-> dir, new_id |-> EmptyStr]
    ELSE IF ~ has_docker_compose_file(compose_file)
         THEN [err |-> "EmptyDockerCompose", dir |-> dir, new_id |-> EmptyStr]
    ELSE IF ~ (dir.exists /\ dir.compose # NoFile)
         THEN [err |-> "NotFound", dir |-> dir, new_id |-> EmptyStr]
    ELSE IF "write_compose" \in faults
         THEN [err |-> "WriteCompose", dir |-> dir, new_id |-> EmptyStr]
    ELSE [err |-> "ok", dir |-> [dir EXCEPT !.compose = compose_file],
          new_id |-> dir.manifest.app_id]

\* the compose branch of upgrade_app storing the re-derived application id in
\* the manifest as well
upgrade_compose_rewrites_manifest(dir, compose_file, faults) ==
    IF compose_file = "" THEN [err |-> "ok", dir |-> dir, new_id |-> EmptyStr]
    ELSE IF ~ parses_as_app_compose(compose_file)
         THEN [err |-> "InvalidCompose", dir |-> dir, new_id |-> EmptyStr]
    ELSE IF ~ has_docker_compose_file(compose_file)
         THEN [err |-> "EmptyDockerCompose", dir |-> dir, new_id |-> EmptyStr]
    ELSE IF ~ (dir.exists /\ dir.compose # NoFile)
         THEN [err |-> "NotFound", dir |-> dir, new_id |-> EmptyStr]
    ELSE IF "write_compose" \in faults
         THEN [err |-> "WriteCompose", dir |-> dir, new_id |-> EmptyStr]
    ELSE [err |-> "ok",
          dir |-> [dir EXCEPT !.compose = compose_file,
                              !.manifest.app_id = IF dir.manifest.present
                                                  THEN app_id_of(compose_file) ELSE @],
          new_id |-> app_id_of(compose_file)]

\* the compose branch of upgrade_app: its error, the directory it leaves and
\* the value of new_id (Default::default() when no compose is supplied)
upgrade_compose(dir, compose_file, faults) ==
    IF compose_file = "" THEN [err |-> "ok", dir |-> dir, new_id |-> EmptyStr]
    ELSE IF ~ parses_as_app_compose(compose_file)
         THEN [err |-> "InvalidCompose", dir |-> dir, new_id |-> EmptyStr]
    ELSE IF ~ has_docker_compose_file(compose_file)
         THEN [err |-> "EmptyDockerCompose", dir |-> dir, new_id |-> EmptyStr]
    ELSE IF ~ (dir.exists /\ dir.compose # NoFile)
         THEN [err |-> "NotFound", dir |-> dir, new_id |-> EmptyStr]
    ELSE IF "write_compose" \in faults
         THEN [err |-> "WriteCompose", dir |-> dir, new_id |-> EmptyStr]
    ELSE [err |-> "ok", dir |-> [dir EXCEPT !.compose = compose_file],
          new_id |-> app_id_of(compose_file)]

\* the encrypted-env branch of upgrade_app with the blob written whatever the
\* request carries
upgrade_env_always(dir, encrypted_env, faults) ==
    IF ~ dir.exists \/ "write_env" \in faults THEN [err |-> "WriteEnv", dir |-> dir]
    ELSE [err |-> "ok", dir |-> [dir EXCEPT !.env = encrypted_env]]

\* the encrypted-env branch of upgrade_app creating the directories its file
\* needs
upgrade_env_creates(dir, encrypted_env, faults) ==
    IF encrypted_env = "" THEN [err |-> "ok", dir |-> dir]
    ELSE IF "write_env" \in faults THEN [err |-> "WriteEnv", dir |-> dir]
    ELSE [err |-> "ok", dir |-> [dir EXCEPT !.exists = TRUE, !.env = encrypted_env]]

\* the encrypted-env branch of upgrade_app: fs::write into the shared directory
upgrade_env(dir, encrypted_env, faults) ==
    IF encrypted_env = "" THEN [err |-> "ok", dir |-> dir]
    ELSE IF ~ dir.exists \/ "write_env" \in faults THEN [err |-> "WriteEnv", dir |-> dir]
    ELSE [err |-> "ok", dir |-> [dir EXCEPT !.env = encrypted_env]]

\* upgrade_app with the encrypted env written before the compose is checked
upgrade_app_env_first(id, compose_file, encrypted_env, faults) ==
    LET e == upgrade_env(dirs[id], encrypted_env, faults)
        c == upgrade_compose(e.dir, compose_file, faults)
    IN  /\ UNCHANGED <<pm_enabled, vms>>
        /\ dirs' = [dirs EXCEPT ![id] = IF e.err = "ok" THEN c.dir ELSE e.dir]
        /\ last' = IF e.err # "ok" THEN Returned("upgrade_app", 0, e.err, FALSE)
                   ELSE IF c.err # "ok" THEN Returned("upgrade_app", 0, c.err, FALSE)
                   ELSE [Returned("upgrade_app", 0, "ok", FALSE) EXCEPT !.new_id = c.new_id]

\* upgrade_app putting the former compose back when the encrypted-env write
\* fails
upgrade_app_restores(id, compose_file, encrypted_env, faults) ==
    LET c == upgrade_compose(dirs[id], compose_file, faults)
        e == upgrade_env(c.dir, encrypted_env, faults)
    IN  /\ UNCHANGED <<pm_enabled, vms>>
        /\ IF c.err # "ok" THEN
               /\ dirs' = [dirs EXCEPT ![id] = c.dir]
               /\ last' = Returned("upgrade_app", 0, c.err, FALSE)
           ELSE IF e.err # "ok" THEN
               /\ UNCHANGED dirs
               /\ last' = Returned("upgrade_app", 0, e.err, FALSE)
           ELSE
               /\ dirs' = [dirs EXCEPT ![id] = e.dir]
               /\ last' = [Returned("upgrade_app", 0, "ok", FALSE) EXCEPT !.new_id = c.new_id]

\* upgrade_app stopping the instance it upgrades
upgrade_app_stops(id, compose_file, encrypted_env, faults) ==
    LET c == upgrade_compose(dirs[id], compose_file, faults)
        e == upgrade_env(c.dir, encrypted_env, faults)
    IN  /\ UNCHANGED pm_enabled
        /\ IF c.err # "ok" THEN
               /\ dirs' = [dirs EXCEPT ![id] = c.dir]
               /\ last' = Returned("upgrade_app", 0, c.err, FALSE)
               /\ UNCHANGED vms
           ELSE IF e.err # "ok" THEN
               /\ dirs' = [dirs EXCEPT ![id] = e.dir]
               /\ last' = Returned("upgrade_app", 0, e.err, FALSE)
               /\ UNCHANGED vms
           ELSE
               /\ dirs' = [dirs EXCEPT ![id] = [e.dir EXCEPT !.started = FALSE]]
               /\ vms' = [vms EXCEPT ![id].status = IF vms[id].loaded THEN "stopped" ELSE @]
               /\ last' = [Returned("upgrade_app", 0, "ok", TRUE) EXCEPT !.new_id = c.new_id]

\* upgrade_app(request): the response carries new_id when both branches succeed
upgrade_app(id, compose_file, encrypted_env, faults) ==
    LET c == upgrade_compose(dirs[id], compose_file, faults)
        e == upgrade_env(c.dir, encrypted_env, faults)
    IN  /\ UNCHANGED <<pm_enabled, vms>>
        /\ IF c.err # "ok" THEN
               /\ dirs' = [dirs EXCEPT ![id] = c.dir]
               /\ last' = Returned("upgrade_app", 0, c.err, FALSE)
           ELSE IF e.err # "ok" THEN
               /\ dirs' = [dirs EXCEPT ![id] = e.dir]
               /\ last' = Returned("upgrade_app", 0, e.err, FALSE)
           ELSE
               /\ dirs' = [dirs EXCEPT ![id] = e.dir]
               /\ last' = [Returned("upgrade_app", 0, "ok", FALSE) EXCEPT !.new_id = c.new_id]

(* ------------------------------- resize_vm ----------------------------- *)

\* a resize allowed whatever the backend reports
resize_allowed_always(reported) == TRUE

\* vm.status != "stopped" refuses the resize
resize_allowed(reported) == reported = "stopped"

\* every field of the request assigned, supplied or not
apply_opt_always(old, opt) == opt.v

\* if let Some(x) = request.field { manifest.field = x }
apply_opt(old, opt) == IF opt.some THEN opt.v ELSE old

\* resize_vm putting the former manifest back when the reload fails
resize_vm_compensated(id, vcpu, memory, disk_size, faults) ==
    LET m == dirs[id].manifest
        resized == [m EXCEPT !.vcpu = apply_opt(@, vcpu),
                             !.memory = apply_opt(@, memory),
                             !.disk_size = apply_opt(@, disk_size)]
        written == [dirs[id] EXCEPT !.manifest = resized]
        ld == load_vm(vms, id, written, faults)
    IN  /\ UNCHANGED pm_enabled
        /\ IF ~ vms[id].loaded THEN
               /\ last' = Returned("resize_vm", 0, "NotFound", FALSE)
               /\ UNCHANGED <<dirs, vms>>
           ELSE IF ~ resize_allowed(vms[id].status) THEN
               /\ last' = Returned("resize_vm", 0, "Conflict", FALSE)
               /\ UNCHANGED <<dirs, vms>>
           ELSE IF ~ m.present THEN
               /\ last' = Returned("resize_vm", 0, "ReadManifest", FALSE)
               /\ UNCHANGED <<dirs, vms>>
           ELSE IF "put_manifest" \in faults THEN
               /\ last' = Returned("resize_vm", 0, "WriteManifest", FALSE)
               /\ UNCHANGED <<dirs, vms>>
           ELSE
               /\ dirs' = IF ld.err = "ok" THEN [dirs EXCEPT ![id] = written] ELSE dirs
               /\ vms' = ld.vms
               /\ last' = Returned("resize_vm", 0, ld.err, ld.backend)

\* resize_vm(request)
resize_vm(id, vcpu, memory, disk_size, faults) ==
    LET m == dirs[id].manifest
        resized == [m EXCEPT !.vcpu = apply_opt(@, vcpu),
                             !.memory = apply_opt(@, memory),
                             !.disk_size = apply_opt(@, disk_size)]
        written == [dirs[id] EXCEPT !.manifest = resized]
        ld == load_vm(vms, id, written, faults)
    IN  /\ UNCHANGED pm_enabled
        /\ IF ~ vms[id].loaded THEN
               /\ last' = Returned("resize_vm", 0, "NotFound", FALSE)
               /\ UNCHANGED <<dirs, vms>>
           ELSE IF ~ resize_allowed(vms[id].status) THEN
               /\ last' = Returned("resize_vm", 0, "Conflict", FALSE)
               /\ UNCHANGED <<dirs, vms>>
           ELSE IF ~ m.present THEN
               /\ last' = Returned("resize_vm", 0, "ReadManifest", FALSE)
               /\ UNCHANGED <<dirs, vms>>
           ELSE IF "put_manifest" \in faults THEN
               /\ last' = Returned("resize_vm", 0, "WriteManifest", FALSE)
               /\ UNCHANGED <<dirs, vms>>
           ELSE
               /\ dirs' = [dirs EXCEPT ![id] = written]
               /\ vms' = ld.vms
               /\ last' = Returned("resize_vm", 0, ld.err, ld.backend)

(* --------------------------- VM runtime backend ------------------------ *)

\* the backend's status(instance_id) stops reporting a running instance as
\* running or stopped: its process is gone without a stop_vm
backend_loses(id) ==
    /\ vms[id].loaded /\ vms[id].status = "running"
    /\ vms' = [vms EXCEPT ![id].status = "unknown"]
    /\ UNCHANGED <<pm_enabled, dirs, last>>

(* ------------------------------- restart ------------------------------ *)

\* the orders in which a scan of run_path can list the directories of S
ScanOrders(S) ==
    { o \in [1 .. Cardinality(S) -> S] : \A a, b \in 1 .. Cardinality(S) : o[a] = o[b] => a = b }

\* the registry after loading the work directories of `order`, one after the
\* other, into registry v; a directory that fails to load is skipped
RECURSIVE reload_vms(_, _, _)
reload_vms(v, d, order) ==
    IF order = <<>> THEN v
    ELSE reload_vms(load_vm(v, Head(order), d[Head(order)], {}).vms, d, Tail(order))

\* a restart of the process: the registry and the CID pool start empty and are
\* rebuilt from the manifests found under run_path
restart ==
    /\ \E order \in ScanOrders({ i \in Ids : dirs[i].manifest.present }) :
           vms' = reload_vms([i \in Ids |-> NoVm], dirs, order)
    /\ last' = Returned("restart", 0, "ok", TRUE)
    /\ UNCHANGED <<pm_enabled, dirs>>

(* ------------------------ create_vm, step by step ---------------------- *)

\* the instance ids of the create_vm calls in flight
InFlightIds == { inflight[r].uuid : r \in { q \in Calls : inflight[q].pc # "idle" } }

\* create_vm up to prepare_work_dir: validation, the id, the work directory
create_prepare(r, request, uuid) ==
    LET prep == prepare_work_dir(dirs[uuid], request, {})
    IN  /\ inflight[r].pc = "idle"
        /\ create_validation_err(request) = "ok"
        /\ dirs' = [dirs EXCEPT ![uuid] = prep.dir]
        /\ IF prep.err # "ok" THEN
               /\ last' = Returned("create_vm", 0, prep.err, FALSE)
               /\ UNCHANGED inflight
           ELSE
               /\ inflight' = [inflight EXCEPT ![r] = [pc |-> "prepared", uuid |-> uuid, cid |-> 0]]
               /\ UNCHANGED last
        /\ UNCHANGED <<pm_enabled, vms>>

\* vm_work_dir.put_manifest(&manifest)
create_put_manifest(r, request, now) ==
    /\ inflight[r].pc = "prepared"
    /\ dirs' = [dirs EXCEPT ![inflight[r].uuid].manifest =
                    build_manifest(inflight[r].uuid, request, now)]
    /\ inflight' = [inflight EXCEPT ![r].pc = "durable"]
    /\ UNCHANGED <<pm_enabled, vms, last>>

\* vm_work_dir.set_started(true)
create_set_started(r) ==
    /\ inflight[r].pc = "durable"
    /\ dirs' = [dirs EXCEPT ![inflight[r].uuid] = set_started_or_warn(@, {})]
    /\ inflight' = [inflight EXCEPT ![r].pc = "started"]
    /\ UNCHANGED <<pm_enabled, vms, last>>

\* the first half of App::load_vm taking a CID and leaving the registry alone
\* until the launch has returned
create_claim_unregistered(r) ==
    LET cid == allocate_cid(vms)
    IN  /\ inflight[r].pc = "started"
        /\ inflight' = [inflight EXCEPT ![r] =
                            [@ EXCEPT !.pc = IF cid = 0 THEN "rollback" ELSE "claimed", !.cid = cid]]
        /\ UNCHANGED <<pm_enabled, dirs, vms, last>>

\* the first half of App::load_vm: allocate_cid and the registration of the
\* instance with that CID, one critical section; the instance counts as
\* stopped until the backend has launched it
create_claim(r) ==
    LET cid == allocate_cid(vms)
    IN  /\ inflight[r].pc = "started"
        /\ inflight' = [inflight EXCEPT ![r] =
                            [@ EXCEPT !.pc = IF cid = 0 THEN "rollback" ELSE "claimed", !.cid = cid]]
        /\ vms' = IF cid = 0 THEN vms
                  ELSE [vms EXCEPT ![inflight[r].uuid] =
                           [loaded |-> TRUE, cid |-> cid, status |-> "stopped"]]
        /\ UNCHANGED <<pm_enabled, dirs, last>>

\* the second half of App::load_vm: the backend launch; create_vm returns
\* Ok(Id) when it succeeds, and when it fails the CID is released
create_launch(r, launched) ==
    LET id == inflight[r].uuid
    IN  /\ inflight[r].pc = "claimed"
        /\ IF launched THEN
               /\ vms' = [vms EXCEPT ![id] =
                            [loaded |-> TRUE, cid |-> inflight[r].cid,
                             status |-> IF dirs[id].started THEN "running" ELSE "stopped"]]
               /\ last' = Returned("create_vm", id, "ok", TRUE)
               /\ inflight' = [inflight EXCEPT ![r] = Idle]
           ELSE
               /\ vms' = [vms EXCEPT ![id] = NoVm]
               /\ inflight' = [inflight EXCEPT ![r].pc = "rollback"]
               /\ UNCHANGED last
        /\ UNCHANGED <<pm_enabled, dirs>>

\* the rollback of create_vm after a failed load_vm, and its return
create_rollback(r) ==
    /\ inflight[r].pc = "rollback"
    /\ dirs' = [dirs EXCEPT ![inflight[r].uuid] = rollback_dir(@, {})]
    /\ last' = Returned("create_vm", 0,
                        IF inflight[r].cid = 0 THEN "CidExhausted" ELSE "Launch",
                        inflight[r].cid # 0)
    /\ inflight' = [inflight EXCEPT ![r] = Idle]
    /\ UNCHANGED <<pm_enabled, vms>>

(* ------------------------------ requests ------------------------------- *)

\* Option<T>
None == [some |-> FALSE, v |-> 0]
Some(x) == [some |-> TRUE, v |-> x]
NoAppId == [some |-> FALSE, v |-> EmptyStr]

PortReq(protocol, host_port, vm_port) ==
    [protocol |-> protocol, host_port |-> host_port, vm_port |-> vm_port]

\* the lowest and the highest mapping the configured range allows
LowPort == PortReq("tcp", RangeFrom, 80)
HighPort == PortReq("tcp", RangeTo, 80)

\* mappings create_vm refuses: the values next to the range, protocols
\* without a range, and 32-bit values a u16 cannot hold
BadPortReqs ==
    { PortReq("tcp", RangeFrom - 1, 80), PortReq("tcp", RangeTo + 1, 80),
      PortReq("udp", RangeFrom, 80), PortReq("icmp", RangeFrom, 80),
      PortReq("tcp", U16Limit + RangeFrom, 80),
      PortReq("tcp", RangeFrom, U16Limit + 80) }

\* request.ports: no mapping, one mapping, two allowed mappings, or an allowed
\* mapping next to one just above the range (before or after it)
PortLists ==
    { <<>>, <<LowPort>>, <<HighPort>>, <<LowPort, HighPort>>,
      <<LowPort, PortReq("tcp", RangeTo + 1, 80)>>,
      <<PortReq("tcp", RangeTo + 1, 80), LowPort>> }
    \cup { <<p>> : p \in BadPortReqs }

\* the request the others vary: a valid name, a complete image, no mapping
BaseRequest ==
    [name |-> <<"a", "-", "1">>, image |-> "img", vcpu |-> 1, memory |-> 1,
     disk_size |-> 1, ports |-> <<>>, compose_file |-> "appA", encrypted_env |-> "",
     app_id |-> NoAppId]

\* create_vm requests: the base request with another name (one with a
\* character validate_label rejects) or port list
CreateRequests ==
    { [BaseRequest EXCEPT !.name = <<"a", " ">>] }
    \cup { [BaseRequest EXCEPT !.ports = l] : l \in PortLists }

\* the file-system calls of prepare_work_dir that can fail whatever the
\* request holds
PrepareFaults == {"create_dir", "write_compose", "copy_certs", "write_config"}

\* create_vm calls of the lifecycle specification: the base request with no
\* failing call, with a failing manifest write, started-flag write, launch or
\* rollback, and with a failing launch followed by a failing rollback
LifecycleCalls ==
    {BaseRequest} \X { {}, {"put_manifest"}, {"set_started"}, {"launch"},
                       {"remove_dir"}, {"launch", "remove_dir"} }

\* create_vm calls of the preparation specification: the base request and the
\* requests for an incomplete image with no failing call; the base request with
\* each failing call of prepare_work_dir, a failing manifest write and a
\* failing launch; a request with an encrypted env whose write fails, and one
\* with an app id whose .instance_info write fails
PrepareCalls ==
    ({ [BaseRequest EXCEPT !.image = i] : i \in Images } \X { {} })
    \cup ({BaseRequest} \X ({ {f} : f \in PrepareFaults }
                            \cup { {"put_manifest"}, {"launch"} }))
    \cup { <<[BaseRequest EXCEPT !.encrypted_env = "e1"], {"write_env"}>>,
           <<[BaseRequest EXCEPT !.app_id = Some(Str("app", 3))], {"write_info"}>> }

\* create_vm calls of the validation specification: every request, no
\* failing call
ValidationCalls == CreateRequests \X { {} }

(* ---------------------------- specification ---------------------------- *)

CreateVm ==
    /\ \E call \in LifecycleCalls, uuid \in Ids : create_vm(call[1], uuid, 1, call[2])
    /\ UNCHANGED <<returned, inflight>>

StartVm ==
    /\ \E id \in Ids, faults \in { {}, {"backend"} } : start_vm(id, faults)
    /\ UNCHANGED <<returned, inflight>>

StopVm ==
    /\ \E id \in Ids, faults \in { {}, {"backend"} } : stop_vm(id, faults)
    /\ UNCHANGED <<returned, inflight>>

\* the calls of remove_vm that can fail: the backend's stop and the deletion of
\* the work directory
RemoveFaults == { {}, {"backend"}, {"remove_dir"} }

RemoveVm ==
    /\ \E id \in Ids, faults \in RemoveFaults : remove_vm(id, faults)
    /\ UNCHANGED <<returned, inflight>>

UpgradeApp ==
    /\ \E id \in Ids, call \in { <<"appA", {}>>, <<"appA", {"write_compose"}>>,
                                  <<"norunner", {}>> } :
           upgrade_app(id, call[1], "", call[2])
    /\ UNCHANGED <<returned, inflight>>

ResizeVm ==
    /\ \E id \in Ids, faults \in { {}, {"put_manifest"}, {"launch"} } :
           resize_vm(id, Some(1), None, None, faults)
    /\ UNCHANGED <<returned, inflight>>

Next == CreateVm \/ StartVm \/ StopVm \/ RemoveVm \/ UpgradeApp \/ ResizeVm

\* the instance lifecycle: one request shape, every operation, failing
\* manifest write, launch and rollback
Spec == InitEnabled /\ [][Next]_vars

CreateVmChecked ==
    /\ \E call \in ValidationCalls, uuid \in Ids : create_vm(call[1], uuid, 1, call[2])
    /\ UNCHANGED <<returned, inflight>>

RemoveVmChecked ==
    /\ \E id \in Ids : remove_vm(id, {})
    /\ UNCHANGED <<returned, inflight>>

UpgradeAppChecked ==
    /\ \E id \in Ids, call \in { <<"garbage", "e1">>, <<"norunner", "e1">>, <<"appA", "">> } :
           upgrade_app(id, call[1], call[2], {})
    /\ UNCHANGED <<returned, inflight>>

NextValidation == CreateVmChecked \/ RemoveVmChecked \/ UpgradeAppChecked

\* request validation: every request shape, no failing call
SpecValidation == Init /\ [][NextValidation]_vars

CreateVmPrepared ==
    /\ \E call \in PrepareCalls, uuid \in Ids : create_vm(call[1], uuid, 1, call[2])
    /\ UNCHANGED <<returned, inflight>>

RemoveVmPrepared ==
    /\ \E id \in Ids : remove_vm(id, {})
    /\ UNCHANGED <<returned, inflight>>

NextPrepare == CreateVmPrepared \/ RemoveVmPrepared

\* work-directory preparation: every call of create_vm's path that can fail
SpecPrepare == InitEnabled /\ [][NextPrepare]_vars

CreateVmTracked ==
    /\ \E uuid \in Ids, faults \in { {}, {"launch"} } : create_vm(BaseRequest, uuid, 1, faults)
    /\ returned' = IF last'.err = "ok" THEN returned \cup {last'.id} ELSE returned
    /\ UNCHANGED inflight

RemoveVmTracked ==
    /\ \E id \in Ids, faults \in { {}, {"remove_dir"} } : remove_vm(id, faults)
    /\ UNCHANGED <<returned, inflight>>

NextIds == CreateVmTracked \/ RemoveVmTracked

\* instance ids: create_vm and remove_vm, with the ids returned so far recorded
SpecIds == InitEnabled /\ [][NextIds]_vars

CreateVmSized ==
    /\ \E uuid \in Ids : create_vm(BaseRequest, uuid, 1, {})
    /\ UNCHANGED <<returned, inflight>>

StartVmSized ==
    /\ \E id \in Ids : start_vm(id, {})
    /\ UNCHANGED <<returned, inflight>>

StopVmSized ==
    /\ \E id \in Ids : stop_vm(id, {})
    /\ UNCHANGED <<returned, inflight>>

RemoveVmSized ==
    /\ \E id \in Ids : remove_vm(id, {})
    /\ UNCHANGED <<returned, inflight>>

\* resize_vm requests <<vcpu, memory, disk_size>>: no quantity, one alone, or
\* all three, each supplied quantity 2 (the base request has 1)
ResizeRequests ==
    { <<None, None, None>>, <<Some(2), None, None>>, <<Some(2), Some(2), Some(2)>> }

\* the calls of resize_vm that can fail: the manifest write and the reload
ResizeFaults == { {}, {"put_manifest"}, {"launch"} }

ResizeVmSized ==
    /\ \E id \in Ids, r \in ResizeRequests, faults \in ResizeFaults :
           resize_vm(id, r[1], r[2], r[3], faults)
    /\ UNCHANGED <<returned, inflight>>

BackendLoses ==
    /\ \E id \in Ids : backend_loses(id)
    /\ UNCHANGED <<returned, inflight>>

NextResize ==
    \/ CreateVmSized \/ StartVmSized \/ StopVmSized \/ RemoveVmSized
    \/ ResizeVmSized \/ BackendLoses

\* resizing: requests supplying no, one or every quantity, on instances in
\* every backend-reported status
SpecResize == InitEnabled /\ [][NextResize]_vars

\* create_vm of the manifest specification: the base request, created at one
\* of two clock readings
CreateVmStamped ==
    /\ \E uuid \in Ids, now \in {1, 2} : create_vm(BaseRequest, uuid, now, {})
    /\ UNCHANGED <<returned, inflight>>

StartVmStamped ==
    /\ \E id \in Ids : start_vm(id, {})
    /\ UNCHANGED <<returned, inflight>>

StopVmStamped ==
    /\ \E id \in Ids : stop_vm(id, {})
    /\ UNCHANGED <<returned, inflight>>

RemoveVmStamped ==
    /\ \E id \in Ids : remove_vm(id, {})
    /\ UNCHANGED <<returned, inflight>>

ResizeVmStamped ==
    /\ \E id \in Ids, vcpu \in {None, Some(2)} : resize_vm(id, vcpu, None, None, {})
    /\ UNCHANGED <<returned, inflight>>

UpgradeAppStamped ==
    /\ \E id \in Ids : upgrade_app(id, "appB", "e1", {})
    /\ UNCHANGED <<returned, inflight>>

NextManifest ==
    \/ CreateVmStamped \/ StartVmStamped \/ StopVmStamped \/ RemoveVmStamped
    \/ ResizeVmStamped \/ UpgradeAppStamped

\* the manifest over an instance's life: every operation on it, with a resize
\* that changes a quantity and an upgrade that changes the stored compose
SpecManifest == InitEnabled /\ [][NextManifest]_vars

\* the application ids a create_vm request carries: none, the empty string, a
\* caller-chosen one
AppIds == {NoAppId, Some(EmptyStr), Some(Str("app", 3))}

\* create_vm requests of the application-id specification: either valid
\* compose file with each application id
AppRequests ==
    { [BaseRequest EXCEPT !.compose_file = c, !.app_id = a] :
          c \in {"appA", "appB"}, a \in AppIds }

CreateVmApp ==
    /\ \E request \in AppRequests, uuid \in Ids : create_vm(request, uuid, 1, {})
    /\ UNCHANGED <<returned, inflight>>

RemoveVmApp ==
    /\ \E id \in Ids : remove_vm(id, {})
    /\ UNCHANGED <<returned, inflight>>

NextAppId == CreateVmApp \/ RemoveVmApp

\* application identity: create_vm with every application id and compose file
SpecAppId == InitEnabled /\ [][NextAppId]_vars

CreateVmUpgradable ==
    /\ \E uuid \in Ids : create_vm(BaseRequest, uuid, 1, {})
    /\ UNCHANGED <<returned, inflight>>

RemoveVmUpgradable ==
    /\ \E id \in Ids : remove_vm(id, {})
    /\ UNCHANGED <<returned, inflight>>

\* request.encrypted_env of upgrade_app: empty or one of two blobs
EnvBlobs == {"", "e1", "e2"}

\* upgrade_app calls <<compose_file, encrypted_env, faults>>: every payload
\* with no failing write, and a full request with either write failing
UpgradeCalls ==
    (ComposeFiles \X EnvBlobs \X { {} })
    \cup { <<"appB", "e1", {"write_compose"}>>, <<"appB", "e1", {"write_env"}>> }

UpgradeAppAny ==
    /\ \E id \in Ids, call \in UpgradeCalls : upgrade_app(id, call[1], call[2], call[3])
    /\ UNCHANGED <<returned, inflight>>

NextUpgrade == CreateVmUpgradable \/ RemoveVmUpgradable \/ UpgradeAppAny

\* application payload: upgrade_app with every compose payload and encrypted
\* env on instances created from the base request
SpecUpgrade == InitEnabled /\ [][NextUpgrade]_vars

\* request.name of create_vm: the empty name, names of letters, digits, '-'
\* and '_', and names with a blank
Names ==
    { <<>>, <<"a">>, <<"a", "-", "1">>, <<"_">>, <<"a", " ">>, <<" ", "a">> }

CreateVmNamed ==
    /\ \E name \in Names, uuid \in Ids :
           create_vm([BaseRequest EXCEPT !.name = name], uuid, 1, {})
    /\ UNCHANGED <<returned, inflight>>

RemoveVmNamed ==
    /\ \E id \in Ids : remove_vm(id, {})
    /\ UNCHANGED <<returned, inflight>>

NextNames == CreateVmNamed \/ RemoveVmNamed

\* display names: create_vm with every name
SpecNames == InitEnabled /\ [][NextNames]_vars

CreateVmDurable ==
    /\ \E uuid \in Ids : create_vm(BaseRequest, uuid, 1, {})
    /\ UNCHANGED <<returned, inflight>>

StopVmDurable ==
    /\ \E id \in Ids : stop_vm(id, {})
    /\ UNCHANGED <<returned, inflight>>

RemoveVmDurable ==
    /\ \E id \in Ids : remove_vm(id, {})
    /\ UNCHANGED <<returned, inflight>>

Restart ==
    /\ restart
    /\ UNCHANGED <<returned, inflight>>

NextRestart == CreateVmDurable \/ StopVmDurable \/ RemoveVmDurable \/ Restart

\* restarts of the process between the RPCs
SpecRestart == InitEnabled /\ [][NextRestart]_vars

CreatePrepare ==
    /\ \E r \in Calls, uuid \in Ids : create_prepare(r, BaseRequest, uuid)
    /\ UNCHANGED returned

CreatePutManifest ==
    /\ \E r \in Calls : create_put_manifest(r, BaseRequest, 1)
    /\ UNCHANGED returned

CreateSetStarted ==
    /\ \E r \in Calls : create_set_started(r)
    /\ UNCHANGED returned

CreateClaim ==
    /\ \E r \in Calls : create_claim(r)
    /\ UNCHANGED returned

CreateLaunch ==
    /\ \E r \in Calls, launched \in BOOLEAN : create_launch(r, launched)
    /\ UNCHANGED returned

CreateRollback ==
    /\ \E r \in Calls : create_rollback(r)
    /\ UNCHANGED returned

\* remove_vm of an instance no create_vm in flight is creating
RemoveVmOther ==
    /\ \E id \in Ids \ InFlightIds : remove_vm(id, {})
    /\ UNCHANGED <<returned, inflight>>

NextConcurrent ==
    \/ CreatePrepare \/ CreatePutManifest \/ CreateSetStarted
    \/ CreateClaim \/ CreateLaunch \/ CreateRollback \/ RemoveVmOther

\* concurrent RPCs: create_vm calls interleaved step by step with each other
\* and with remove_vm
SpecConcurrent == InitEnabled /\ [][NextConcurrent]_vars

(* ------------------------------ properties ----------------------------- *)

\* the instance ids whose work directory exists
WorkDirs(d) == { i \in Ids : d[i].exists }

\* the instances that are live: created and not removed
Live(v) == { i \in Ids : v[i].loaded }

\* no live instance holds CID c
CidFree(c, v) == \A i \in Live(v) : v[i].cid # c

\* every CID of the configured range is held by a live instance
PoolFull(v) == \A c \in cid_start .. (cid_start + cid_pool_size - 1) : ~ CidFree(c, v)

\* C1: when create_vm returns an error raised by work-directory preparation or
\* any later step, the work directory of the instance id it generated does not
\* exist.
C1_FailedCreateLeavesNoWorkDir ==
    (last.op = "create_vm" /\ last.id # 0 /\ last.err \notin {"ok", "AlreadyExists"})
        => ~ dirs[last.id].exists

\* C2 as claimed: when the backend launch of create_vm fails, the work
\* directory of the instance does not exist once create_vm has returned, the
\* error returned is the launch error and the instance's CID is free again.
C2_LaunchFailureRemovesWorkDir ==
    (last.op = "create_vm" /\ last.backend /\ last.err # "ok")
        => /\ ~ dirs[last.id].exists
           /\ last.err = "Launch"
           /\ last.id \notin Live(vms)
           /\ ~ PoolFull(vms)

\* C2 amended: when the backend launch of create_vm fails, create_vm returns
\* the launch error, the instance holds no CID and a CID is free again, and the
\* work directory is gone unless the rollback's remove_dir_all failed, which
\* the call has logged as a warning.
C2_LaunchFailureRollsBack ==
    (last.op = "create_vm" /\ last.backend /\ last.err # "ok")
        => /\ last.err = "Launch"
           /\ last.id \notin Live(vms)
           /\ ~ PoolFull(vms)
           /\ dirs[last.id].exists <=> "remove_dir" \in last.warns

\* C2 witness: a create_vm whose launch failed and whose rollback removed the
\* work directory, while another instance is live
C2_Witness ==
    /\ last.op = "create_vm" /\ last.err = "Launch" /\ last.warns = {}
    /\ ~ dirs[last.id].exists
    /\ Live(vms) # {}

\* C3: no two live instances hold the same CID, and every CID held lies in
\* [cid_start, cid_start + cid_pool_size).
C3_CidsUniqueInRange ==
    /\ \A i \in Live(vms), j \in Live(vms) : i # j => vms[i].cid # vms[j].cid
    /\ \A i \in Live(vms) :
          vms[i].cid >= cid_start /\ vms[i].cid < cid_start + cid_pool_size

\* C3 witness: two live instances, the second created after an instance had
\* been removed
C3_Witness ==
    /\ Cardinality(Live(vms)) = 2
    /\ last.op = "create_vm" /\ last.err = "ok"
    /\ vms[last.id].cid = cid_start

\* the (address, protocol, host port) triples of a manifest's port map
HostTriples(m) ==
    { <<m.port_map[k].address, m.port_map[k].protocol, m.port_map[k].from>> :
        k \in 1 .. Len(m.port_map) }

\* C4: no two live instances have a port mapping with the same (bind address,
\* protocol, host port) triple.
C4_HostPortClaimedOnce ==
    \A i \in Live(vms), j \in Live(vms) :
        i # j => HostTriples(dirs[i].manifest) \cap HostTriples(dirs[j].manifest) = {}

C6_ExhaustedCreatesNoWorkDir ==
    [][(PoolFull(vms) /\ last'.op = "create_vm" /\ last'.err = "CidExhausted")
          => WorkDirs(dirs') = WorkDirs(dirs)]_vars

\* C6 amended: when every CID is held no create_vm succeeds, and one that
\* fails for want of a CID leaves the live instances as they were and the set
\* of work directories as it was, except that the directory it had prepared
\* stays when the rollback's remove_dir_all failed (logged as a warning).
C6_ExhaustedCreateRollsBack ==
    [][(PoolFull(vms) /\ last'.op = "create_vm")
          => /\ last'.err # "ok"
             /\ last'.err = "CidExhausted"
                  => /\ vms' = vms
                     /\ WorkDirs(dirs') =
                           WorkDirs(dirs) \cup (IF "remove_dir" \in last'.warns
                                                THEN {last'.id} ELSE {})]_vars

\* C6 witness: a create_vm refused for want of a CID whose work directory is
\* gone again
C6_Witness ==
    /\ last.op = "create_vm" /\ last.err = "CidExhausted"
    /\ PoolFull(vms)
    /\ ~ dirs[last.id].exists

\* C7: a successful create_vm gives the instance the lowest CID of the range
\* that no live instance held, and create_vm fails for want of a CID only
\* when every CID of the range is held, in which case it never gets as far as
\* the launch.
C7_LowestFreeCid ==
    [][last'.op = "create_vm"
          => /\ last'.err = "ok"
                  => LET c == vms'[last'.id].cid
                     IN  /\ c >= cid_start /\ c < cid_start + cid_pool_size
                         /\ CidFree(c, vms)
                         /\ \A d \in cid_start .. (c - 1) : ~ CidFree(d, vms)
             /\ last'.err = "CidExhausted" => PoolFull(vms)
             /\ PoolFull(vms) => last'.err \notin {"ok", "Launch"}]_vars

\* C7 witness: the start of the range handed out again while the next CID is
\* still held
C7_Witness ==
    /\ last.op = "create_vm" /\ last.err = "ok"
    /\ vms[last.id].cid = cid_start
    /\ \E j \in Live(vms) : vms[j].cid = cid_start + 1

\* C8: with port mapping disabled, create_vm with a valid name and a
\* non-empty ports list is refused as "port mapping is disabled" with no work
\* directory created and no instance loaded; with an empty ports list it is
\* not refused for its ports, and it succeeds when the name is valid, the image
\* complete, the id unused and a CID free.
C8_DisabledPortMapping ==
    [][\A call \in ValidationCalls, uuid \in Ids :
          (~ pm_enabled /\ create_vm(call[1], uuid, 1, call[2]))
            => IF call[1].ports # <<>>
               THEN validate_label(call[1].name)
                      => /\ last'.err = "PortMappingDisabled"
                         /\ dirs' = dirs /\ vms' = vms
               ELSE /\ last'.err \notin ValidationErrs \ {"InvalidName"}
                    /\ (/\ validate_label(call[1].name)
                        /\ call[1].image = "img"
                        /\ uuid \notin WorkDirs(dirs)
                        /\ ~ PoolFull(vms)) => last'.err = "ok"]_vars

\* C8 witness: with port mapping disabled an instance is live and a request
\* with ports has just been refused
C8_Witness ==
    /\ ~ pm_enabled
    /\ last.op = "create_vm" /\ last.err = "PortMappingDisabled"
    /\ Live(vms) # {}

\* the admission rule of the design: mapping enabled and a configured range
\* of the same protocol with from <= host port <= to
Admissible(p) ==
    /\ pm_enabled
    /\ \E k \in 1 .. Len(PmRange) :
          /\ (PmRange[k].protocol = "Tcp" /\ p.protocol = "tcp")
               \/ (PmRange[k].protocol = "Udp" /\ p.protocol = "udp")
          /\ PmRange[k].from <= p.host_port
          /\ p.host_port <= PmRange[k].to

\* the manifest records the requested mappings, all of them and in order
RecordsAll(m, ports) ==
    /\ Len(m.port_map) = Len(ports)
    /\ \A k \in 1 .. Len(ports) :
          /\ m.port_map[k].from = ports[k].host_port
          /\ m.port_map[k].to = ports[k].vm_port
          /\ m.port_map[k].protocol = (IF ports[k].protocol = "tcp" THEN "Tcp" ELSE "Udp")

\* C9 as claimed: create_vm (given a valid name) accepts the ports of a
\* request exactly when every mapping is admissible; one failing mapping
\* refuses the whole request, and the manifest of a created instance records
\* every requested mapping.
C9_AcceptsIffAdmissible ==
    [][\A call \in ValidationCalls, uuid \in Ids :
          (create_vm(call[1], uuid, 1, call[2]) /\ validate_label(call[1].name))
            => /\ last'.err \notin ValidationErrs
                    <=> \A k \in 1 .. Len(call[1].ports) : Admissible(call[1].ports[k])
               /\ last'.err \in ValidationErrs => dirs' = dirs /\ vms' = vms
               /\ last'.err = "ok" => RecordsAll(dirs'[uuid].manifest, call[1].ports)]_vars

\* C9 amended: create_vm (given a valid name) accepts the ports of a request
\* exactly when every mapping is admissible and has a guest port of at most
\* 65535; one failing mapping refuses the whole request, and the manifest of a
\* created instance records every requested mapping.
C9_AcceptsIffAdmissibleU16 ==
    [][\A call \in ValidationCalls, uuid \in Ids :
          (create_vm(call[1], uuid, 1, call[2]) /\ validate_label(call[1].name))
            => /\ last'.err \notin ValidationErrs
                    <=> \A k \in 1 .. Len(call[1].ports) :
                            Admissible(call[1].ports[k]) /\ call[1].ports[k].vm_port < U16Limit
               /\ last'.err \in ValidationErrs => dirs' = dirs /\ vms' = vms
               /\ last'.err = "ok" => RecordsAll(dirs'[uuid].manifest, call[1].ports)]_vars

\* C9 witness: an instance created with both ends of the allowed range mapped
C9_Witness ==
    /\ last.op = "create_vm" /\ last.err = "ok"
    /\ Len(dirs[last.id].manifest.port_map) = 2
    /\ dirs[last.id].manifest.port_map[1].from = RangeFrom
    /\ dirs[last.id].manifest.port_map[2].from = RangeTo

\* C10: a request refused with a validation error leaves every work
\* directory and file, every CID and every live instance as they were, and
\* does not call the backend.
C10_ValidationErrorChangesNothing ==
    [][last'.err \in ValidationErrs
          => dirs' = dirs /\ vms' = vms /\ ~ last'.backend]_vars

\* C10 witness: an upgrade_app refused for its compose while an instance with
\* a stored compose file exists
C10_Witness ==
    /\ last.op = "upgrade_app" /\ last.err \in {"InvalidCompose", "EmptyDockerCompose"}
    /\ \E i \in Ids : dirs[i].exists /\ dirs[i].compose # NoFile /\ i \in Live(vms)

\* the work directories, the registry and the backend are as they were
NothingChanged == dirs' = dirs /\ vms' = vms /\ ~ last'.backend

\* C11: resize_vm on an instance whose reported status is not "stopped" fails
\* with the state-conflict error, resize_vm on an id that is not registered
\* fails with not-found, and either leaves every manifest, directory and
\* registry entry as it was without calling the backend; a resize_vm that got
\* past both checks was aimed at a stopped instance.
C11_ResizeRefusedUnlessStopped ==
    [][/\ \A id \in Ids, r \in ResizeRequests, faults \in ResizeFaults :
             resize_vm(id, r[1], r[2], r[3], faults)
               => /\ ~ vms[id].loaded => last'.err = "NotFound" /\ NothingChanged
                  /\ (vms[id].loaded /\ vms[id].status # "stopped")
                        => last'.err = "Conflict" /\ NothingChanged
       /\ (last'.op = "resize_vm" /\ last'.err \notin {"NotFound", "Conflict"})
             => \E i \in Ids : vms[i].loaded /\ vms[i].status = "stopped"]_vars

\* C11 witness: a resize_vm refused with the conflict error while the
\* registered instances are a running one and one of unknown status, whose
\* manifests hold the quantities they were created with
C11_Witness ==
    /\ last.op = "resize_vm" /\ last.err = "Conflict"
    /\ \E i \in Ids : vms[i].loaded /\ vms[i].status = "running"
    /\ \E i \in Ids : vms[i].loaded /\ vms[i].status = "unknown"
    /\ \A i \in Ids : vms[i].loaded => vms[i].status # "stopped" /\ dirs[i].manifest.vcpu = 1

\* what a resize request <<vcpu, memory, disk_size>> makes of manifest m
Resized(m, r) ==
    [m EXCEPT !.vcpu = IF r[1].some THEN r[1].v ELSE @,
              !.memory = IF r[2].some THEN r[2].v ELSE @,
              !.disk_size = IF r[3].some THEN r[3].v ELSE @]

\* C12: after a successful resize_vm the manifest of the instance holds the
\* requested value in each of vcpu, memory and disk_size the request supplies
\* and its former value in every other field (id, name, app id, image, port
\* map and creation time among them); with no field supplied it is unchanged;
\* every other work directory is as it was.
C12_ResizeAppliesSuppliedFields ==
    [][\A id \in Ids, r \in ResizeRequests, faults \in ResizeFaults :
          (resize_vm(id, r[1], r[2], r[3], faults) /\ last'.err = "ok")
            => /\ dirs'[id].manifest = Resized(dirs[id].manifest, r)
               /\ dirs'[id].manifest.present
               /\ r = <<None, None, None>> => dirs'[id].manifest = dirs[id].manifest
               /\ \A j \in Ids \ {id} : dirs'[j] = dirs[j]]_vars

\* C12 witness: after a successful resize_vm, one manifest has vcpu resized
\* alone and another all three quantities, both with the name, application
\* id and creation time of their create_vm
C12_Witness ==
    /\ last.op = "resize_vm" /\ last.err = "ok"
    /\ \E i \in Ids, j \in Ids :
          /\ dirs[i].manifest.vcpu = 2 /\ dirs[i].manifest.memory = 1
          /\ dirs[i].manifest.disk_size = 1
          /\ dirs[j].manifest.vcpu = 2 /\ dirs[j].manifest.memory = 2
          /\ dirs[j].manifest.disk_size = 2
          /\ \A k \in {i, j} :
                /\ dirs[k].manifest.name = BaseRequest.name
                /\ dirs[k].manifest.app_id = app_id_of("appA")
                /\ dirs[k].manifest.created_at_ms = 1

\* manifests m and n differ in nothing but vcpu, memory and disk_size
SameButQuantities(m, n) ==
    [m EXCEPT !.vcpu = 0, !.memory = 0, !.disk_size = 0]
        = [n EXCEPT !.vcpu = 0, !.memory = 0, !.disk_size = 0]

\* C13: a manifest carries the id of its work directory, and from one
\* operation to the next, as long as the manifest exists, its instance id,
\* application id, name, image, port map and creation time stay what they
\* were; vcpu, memory and disk_size change only in a resize_vm.
C13_ManifestIdentityImmutable ==
    [][\A i \in Ids :
          /\ dirs'[i].manifest.present => dirs'[i].manifest.id = i
          /\ (dirs[i].manifest.present /\ dirs'[i].manifest.present)
                => /\ SameButQuantities(dirs[i].manifest, dirs'[i].manifest)
                   /\ dirs'[i].manifest # dirs[i].manifest => last'.op = "resize_vm"]_vars

\* C13 witness: an instance created from compose appA at clock reading 2, since
\* stopped, resized, upgraded to compose appB and started again, whose manifest
\* still holds the application id of appA
C13_Witness ==
    \E i \in Ids :
        /\ vms[i].loaded /\ vms[i].status = "running"
        /\ dirs[i].manifest.vcpu = 2
        /\ dirs[i].compose = "appB" /\ dirs[i].env = "e1"
        /\ dirs[i].manifest.app_id = app_id_of("appA")
        /\ dirs[i].manifest.created_at_ms = 2

\* C14: upgrade_app with a non-empty compose payload that does not parse or
\* that has no docker_compose_file fails with a validation error and leaves
\* every work directory (stored compose and encrypted env included) and every
\* registry entry as it was, whatever encrypted env the request carries.
C14_BadComposeWritesNothing ==
    [][\A id \in Ids, call \in UpgradeCalls :
          (upgrade_app(id, call[1], call[2], call[3]) /\ call[1] \in {"garbage", "norunner"})
            => /\ last'.err = IF call[1] = "garbage" THEN "InvalidCompose"
                                                     ELSE "EmptyDockerCompose"
               /\ dirs' = dirs /\ vms' = vms]_vars

\* C14 witness: an upgrade_app refused for a compose without
\* docker_compose_file, while an instance exists whose encrypted env has
\* never been written
C14_Witness ==
    /\ last.op = "upgrade_app" /\ last.err = "EmptyDockerCompose"
    /\ \E i \in Ids : vms[i].loaded /\ dirs[i].compose = "appA" /\ dirs[i].env = NoFile

\* C15: upgrade_app without a compose payload leaves the stored compose file
\* as it was, and without an encrypted env leaves the blob as it was; a
\* successful request with only an env changes that blob alone, one with only
\* a compose changes the compose file alone, one with neither succeeds and
\* changes nothing; no other work directory or registry entry changes.
C15_ComposeAndEnvIndependent ==
    [][\A id \in Ids, call \in UpgradeCalls :
          upgrade_app(id, call[1], call[2], call[3])
            => /\ call[1] = "" => dirs'[id].compose = dirs[id].compose
               /\ call[2] = "" => dirs'[id].env = dirs[id].env
               /\ (call[1] = "" /\ call[2] # "" /\ last'.err = "ok")
                     => dirs'[id] = [dirs[id] EXCEPT !.env = call[2]]
               /\ (call[1] # "" /\ call[2] = "" /\ last'.err = "ok")
                     => dirs'[id] = [dirs[id] EXCEPT !.compose = call[1]]
               /\ (call[1] = "" /\ call[2] = "") => last'.err = "ok" /\ dirs' = dirs
               /\ \A j \in Ids \ {id} : dirs'[j] = dirs[j]
               /\ vms' = vms]_vars

\* C15 witness: after a successful upgrade_app, one instance has a replaced
\* encrypted env next to the compose it was created with, another a replaced
\* compose and no encrypted env
C15_Witness ==
    /\ last.op = "upgrade_app" /\ last.err = "ok"
    /\ \E i \in Ids, j \in Ids :
          /\ dirs[i].manifest.app_id = app_id_of("appA")
          /\ dirs[i].compose = "appA" /\ dirs[i].env = "e2"
          /\ dirs[j].manifest.app_id = app_id_of("appA")
          /\ dirs[j].compose = "appB" /\ dirs[j].env = NoFile

\* C16: after a successful upgrade_app with a compose payload, the stored
\* compose file is the payload and the application id of the response is
\* the first 40 hex digits of the payload's SHA-256.
C16_UpgradeRederivesAppId ==
    [][\A id \in Ids, call \in UpgradeCalls :
          (upgrade_app(id, call[1], call[2], call[3]) /\ call[1] # "" /\ last'.err = "ok")
            => /\ dirs'[id].compose = call[1]
               /\ last'.new_id = <<"sha256", call[1], 40>>]_vars

\* C16 witness: an upgrade_app that answered with the application id of
\* compose appB for an instance created from compose appA
C16_Witness ==
    /\ last.op = "upgrade_app" /\ last.err = "ok"
    /\ last.new_id = app_id_of("appB")
    /\ \E i \in Ids :
          /\ dirs[i].compose = "appB"
          /\ dirs[i].manifest.app_id = app_id_of("appA")
    /\ \A i \in Ids : dirs[i].exists => dirs[i].manifest.app_id # app_id_of("appB")

\* C17: the manifest of a successfully created instance holds the request's
\* app_id when the request carries one, the empty string included, and the
\* id derived from compose_file when it carries none.
C17_AppIdOverrideOrDerived ==
    [][\A request \in AppRequests, uuid \in Ids :
          (create_vm(request, uuid, 1, {}) /\ last'.err = "ok")
            => dirs'[uuid].manifest.app_id
                 = IF request.app_id.some THEN request.app_id.v
                   ELSE <<"sha256", request.compose_file, 40>>]_vars

\* C17 witness: two instances with the same stored compose, one created
\* with the empty application id, one with an id derived from the compose
C17_Witness ==
    /\ last.op = "create_vm" /\ last.err = "ok"
    /\ \E i \in Ids, j \in Ids :
          /\ dirs[i].compose = "appB" /\ dirs[j].compose = "appB"
          /\ dirs[i].manifest.present /\ dirs[i].manifest.app_id = EmptyStr
          /\ dirs[j].manifest.present /\ dirs[j].manifest.app_id = app_id_of("appB")

\* C18: remove_vm on an id that is not registered (never created, or removed
\* before) returns NotFound and leaves every work directory and every
\* registry entry, CIDs included, as it was, without calling the backend; a
\* remove_vm that got past the backend leaves its id unregistered, so a
\* second remove_vm on it is such a call.
C18_RemoveUnknownIsNotFound ==
    [][\A id \in Ids, faults \in RemoveFaults :
          remove_vm(id, faults)
            => /\ ~ vms[id].loaded => last'.err = "NotFound" /\ NothingChanged
               /\ last'.err \in {"ok", "RemoveDir"} => ~ vms'[id].loaded]_vars

\* C18 witness: a remove_vm answered NotFound while the work directory of an
\* instance removed earlier is still there and another instance is live
C18_Witness ==
    /\ last.op = "remove_vm" /\ last.err = "NotFound"
    /\ \E i \in Ids : dirs[i].manifest.present /\ ~ vms[i].loaded
    /\ \E j \in Ids : vms[j].loaded /\ vms[j].cid \in cid_range

\* C19: the instance ids status lists are exactly the ids whose work
\* directory exists.
C19_StatusListsWorkDirs == status(vms) = WorkDirs(dirs)

\* C20: when remove_vm's deletion of the work directory fails, the call
\* returns that error, the instance is unregistered and no instance holds the
\* CID it held, while the work directories are as they were.
C20_RemoveReleasesBeforeDelete ==
    [][\A id \in Ids :
          (remove_vm(id, {"remove_dir"}) /\ vms[id].loaded)
            => /\ last'.err = "RemoveDir"
               /\ ~ vms'[id].loaded
               /\ CidFree(vms[id].cid, vms')
               /\ \A j \in Ids \ {id} : vms'[j] = vms[j]
               /\ dirs' = dirs]_vars

\* C20 witness: a remove_vm whose directory deletion failed with the pool
\* full before it: the directory and its manifest remain, the instance is
\* unregistered and the lowest CID is free while the other is still held
C20_Witness ==
    /\ last.op = "remove_vm" /\ last.err = "RemoveDir"
    /\ \E i \in Ids : dirs[i].manifest.present /\ ~ vms[i].loaded
    /\ CidFree(cid_start, vms)
    /\ \E j \in Ids : vms[j].loaded /\ vms[j].cid = cid_start + 1

\* C23: after a successful create_vm the manifest of the instance is on disk
\* and its started flag is true (the flag is set before the backend launch).
C23_StartedBeforeLaunch ==
    (last.op = "create_vm" /\ last.err = "ok")
        => dirs[last.id].manifest.present /\ dirs[last.id].started

\* C24: create_vm for an instance id whose work directory exists fails with
\* AlreadyExists and leaves that directory, every file in it, every other
\* directory and the registry as they were.
C24_ExistingDirRejectedUntouched ==
    [][\A call \in PrepareCalls, uuid \in Ids :
          (create_vm(call[1], uuid, 1, call[2]) /\ dirs[uuid].exists)
            => last'.err = "AlreadyExists" /\ NothingChanged]_vars

\* C24 witness: a create_vm refused with AlreadyExists for the id of a live
\* instance, whose directory still holds its manifest and compose file
C24_Witness ==
    /\ last.op = "create_vm" /\ last.err = "AlreadyExists"
    /\ vms[last.id].loaded
    /\ dirs[last.id].manifest.present /\ dirs[last.id].compose = "appA"

\* C25: upgrade_app on a registered instance succeeds whatever its status,
\* and no upgrade_app changes the registry (status and CID), the started flag
\* or recorded port mappings of any instance, or calls the backend.
C25_UpgradeKeepsRunState ==
    [][\A id \in Ids :
          upgrade_app(id, "appB", "e1", {})
            => /\ vms[id].loaded => last'.err = "ok"
               /\ vms' = vms
               /\ \A j \in Ids : /\ dirs'[j].started = dirs[j].started
                                 /\ dirs'[j].manifest.port_map = dirs[j].manifest.port_map
               /\ ~ last'.backend]_vars

\* C25 witness: an upgrade_app that succeeded while every registered
\* instance was running; the upgraded one still is, with its CID
C25_Witness ==
    /\ last.op = "upgrade_app" /\ last.err = "ok"
    /\ \E i \in Ids : vms[i].loaded /\ dirs[i].compose = "appB"
    /\ \A i \in Ids : vms[i].loaded
          => vms[i].status = "running" /\ dirs[i].started /\ vms[i].cid \in cid_range

\* the characters validate_label is documented to allow
LabelChars == {"a", "1", "-", "_"}

\* C26: create_vm accepts a name exactly when it is non-empty and made of
\* alphanumeric characters, '-' and '_'; a refused name is refused before an
\* instance id is generated and changes nothing.
C26_NameAcceptedIffNonEmptyLabel ==
    [][\A name \in Names, uuid \in Ids :
          create_vm([BaseRequest EXCEPT !.name = name], uuid, 1, {})
            => /\ last'.err # "InvalidName"
                    <=> (Len(name) > 0 /\ \A k \in 1 .. Len(name) : name[k] \in LabelChars)
               /\ last'.err = "InvalidName" => last'.id = 0 /\ NothingChanged]_vars

\* C27: create_vm refuses a request with a host port or guest port above
\* 65535 with the error of the failed conversion (or of the disabled switch)
\* and changes nothing; every port a manifest records is a 16-bit value the
\* request held, the host port inside the configured range.
C27_WidePortsRejected ==
    [][/\ \A call \in ValidationCalls, uuid \in Ids :
             (/\ create_vm(call[1], uuid, 1, call[2])
              /\ validate_label(call[1].name)
              /\ \E k \in 1 .. Len(call[1].ports) :
                    \/ call[1].ports[k].host_port >= U16Limit
                    \/ call[1].ports[k].vm_port >= U16Limit)
               => /\ last'.err \in {"InvalidHostPort", "InvalidVmPort", "PortMappingDisabled"}
                  /\ pm_enabled => last'.err # "PortMappingDisabled"
                  /\ NothingChanged
       /\ \A i \in Ids : \A k \in 1 .. Len(dirs'[i].manifest.port_map) :
             /\ dirs'[i].manifest.port_map[k].from \in RangeFrom .. RangeTo
             /\ dirs'[i].manifest.port_map[k].to \in 0 .. (U16Limit - 1)]_vars

\* C27 witness: a create_vm refused for a guest port a u16 cannot hold, on a
\* host with port mapping enabled and an instance with a mapping created
C27_Witness ==
    /\ pm_enabled
    /\ last.op = "create_vm" /\ last.err = "InvalidVmPort"
    /\ \E i \in Ids : Len(dirs[i].manifest.port_map) > 0

\* C28: when the reload of resize_vm fails after the manifest write, the
\* call returns the reload's error and the manifest on disk holds the
\* resized quantities.
C28_ResizeKeepsManifestOnReloadFailure ==
    [][\A id \in Ids, r \in ResizeRequests :
          (/\ resize_vm(id, r[1], r[2], r[3], {"launch"})
           /\ vms[id].loaded /\ vms[id].status = "stopped")
            => /\ last'.err = "Launch"
               /\ dirs'[id].manifest = Resized(dirs[id].manifest, r)]_vars

\* C28 witness: a resize_vm whose reload failed, leaving resized quantities
\* in the manifest of a stopped instance
C28_Witness ==
    /\ last.op = "resize_vm" /\ last.err = "Launch"
    /\ \E i \in Ids :
          /\ vms[i].loaded /\ vms[i].status = "stopped"
          /\ dirs[i].manifest.vcpu = 2 /\ dirs[i].manifest.memory = 2

\* C29: upgrade_app with a compose, an encrypted env or both, for an id with
\* no work directory, returns an error; no upgrade_app call changes which
\* work directories exist, and for such an id it changes nothing at all.
C29_UpgradeCreatesNothing ==
    [][\A id \in Ids, call \in UpgradeCalls :
          upgrade_app(id, call[1], call[2], call[3])
            => /\ WorkDirs(dirs') = WorkDirs(dirs)
               /\ ~ dirs[id].exists
                    => /\ dirs' = dirs /\ vms' = vms
                       /\ (call[1] # "" \/ call[2] # "") => last'.err # "ok"]_vars

\* C29 witness: an upgrade_app carrying only an encrypted env failed on its
\* write while no work directory exists
C29_Witness ==
    /\ last.op = "upgrade_app" /\ last.err = "WriteEnv"
    /\ WorkDirs(dirs) = {}

\* C30: when upgrade_app carries a valid compose and an encrypted env and
\* the env write fails, the call returns that error, the stored compose is
\* the new one and the stored env is the former one.
C30_ComposeKeptWhenEnvWriteFails ==
    [][\A id \in Ids, call \in UpgradeCalls :
          (/\ upgrade_app(id, call[1], call[2], call[3])
           /\ call[1] \in {"appA", "appB"} /\ call[2] # "" /\ call[3] = {"write_env"}
           /\ dirs[id].exists)
            => /\ last'.err = "WriteEnv"
               /\ dirs'[id].compose = call[1]
               /\ dirs'[id].env = dirs[id].env]_vars

\* C30 witness: an upgrade_app failed on the env write, and an instance
\* created from compose appA now stores compose appB and no encrypted env
C30_Witness ==
    /\ last.op = "upgrade_app" /\ last.err = "WriteEnv"
    /\ \E i \in Ids :
          /\ dirs[i].manifest.app_id = app_id_of("appA")
          /\ dirs[i].compose = "appB" /\ dirs[i].env = NoFile

====
